---- MODULE Spec2Model ----
(***************************************************************************)
(* safecheck: internal consistency checker for SAFE products.             *)
(*                                                                         *)
(* The model follows src/safecheck/safecheck.py: main() walks the list of  *)
(* products of the command line and calls verify_safe_product() on each;   *)
(* verify_safe_product() is a sequence of steps over the product           *)
(* directory and its manifest.  Strings the code slices, splits or         *)
(* compares character by character (the product name, ids, hrefs, sizes)   *)
(* are sequences of one-character strings.                                 *)
(*                                                                         *)
(* What the code reads from outside (the file system, the manifest         *)
(* document) is chosen when the code reads it.  The document is taken to   *)
(* be structurally complete where it is parsed: the three sections exist,  *)
(* every entry carries the attributes and children the code dereferences,  *)
(* repID attributes hold at least one id and sizes are decimal numbers.    *)
(* A section holds any number of entries: its loop runs until the model    *)
(* ends it.  An href is a relative path in normal form, with or without a *)
(* leading "./" (no ".." part, no link), so that product / href is the     *)
(* path rglob gives for the same file.                                     *)
(* No signal (KeyboardInterrupt) is delivered.                             *)
(***************************************************************************)
EXTENDS Naturals, Integers, Sequences, FiniteSets, TLC

VARIABLES
    nargs,          \* len(args.products)
    schema_arg,     \* args.schema: None, or the path of an explicit schema
    return_code,    \* main: return_code
    results,        \* the values the verify_safe_product calls returned
    exit_status,    \* exit status of the process, None while it runs
    pc,             \* position in main / verify_safe_product
    product,        \* verify_safe_product: product (its name)
    mission,        \* product.name[0:2]
    has_errors,
    has_warnings,
    manifest_crc,   \* crc_hqx of the bytes of manifest.safe
    manifest_wf,    \* whether manifest.safe is well-formed XML
    disk,           \* regular files under the product root, manifest aside
    fattr,          \* what has been read of each file: size, md5, validity
    files,          \* the working list of files
    reps,           \* rep_id -> {'ID', 'href'}
    data_objects,   \* the dict data_objects, in insertion order
    cur,            \* the entry the running loop is at (loop variable)
    keys,           \* keys, sorted by href
    ki,             \* index in keys of the data object being checked
    result,         \* value returned by verify_safe_product
    exc,            \* exception raised out of verify_safe_product
    logged,         \* the log records the last step wrote
    done            \* the checks that ran for the current product

vars == <<nargs, schema_arg, return_code, results, exit_status, pc, product,
          mission, has_errors, has_warnings, manifest_crc, manifest_wf, disk,
          fattr, files,
          reps, data_objects, cur, keys, ki, result, exc, logged,
          done>>

None == "None"

(***************************************************************************)
(* Bounds of the model.                                                    *)
(***************************************************************************)
MaxProducts == 2    \* products on one command line

(***************************************************************************)
(* Characters and strings.                                                 *)
(***************************************************************************)
\* The characters in use, in ASCII order.
AsciiOrder ==
    <<" ", ".", "/", "0", "1", "2", "3", "4", "5", "6", "7", "8", "9",
      "A", "B", "C", "D", "E", "F", "G", "H", "I", "J", "K", "L", "M",
      "N", "O", "P", "Q", "R", "S", "T", "U", "V", "W", "X", "Y", "Z", "_",
      "a", "b", "c", "d", "e", "f", "g", "h", "i", "j", "k", "l", "m",
      "n", "o", "p", "q", "r", "s", "t", "u", "v", "w", "x", "y", "z">>

Ord == [c \in {AsciiOrder[i] : i \in 1..Len(AsciiOrder)} |->
            CHOOSE i \in 1..Len(AsciiOrder) : AsciiOrder[i] = c]

IsUpper(c) == Ord[c] >= Ord["A"] /\ Ord[c] <= Ord["Z"]

\* str.lower()
LowerChar(c) == IF IsUpper(c) THEN AsciiOrder[Ord[c] - Ord["A"] + Ord["a"]] ELSE c
Lower(s) == [i \in 1..Len(s) |-> LowerChar(s[i])]

Min(a, b) == IF a < b THEN a ELSE b

\* s[a:b] of Python, 0 <= a <= b
Slice(s, a, b) == SubSeq(s, a + 1, Min(b, Len(s)))

\* s < t for Python strings
RECURSIVE StrLess(_, _)
StrLess(s, t) ==
    IF t = <<>> THEN FALSE
    ELSE IF s = <<>> THEN TRUE
    ELSE IF Head(s) # Head(t) THEN Ord[Head(s)] < Ord[Head(t)]
    ELSE StrLess(Tail(s), Tail(t))

\* s.endswith(suf)
EndsWith(s, suf) ==
    Len(suf) <= Len(s) /\ SubSeq(s, Len(s) - Len(suf) + 1, Len(s)) = suf

\* s.split(sep), sep one character: empty fields are kept
RECURSIVE SplitAcc(_, _, _)
SplitAcc(s, sep, field) ==
    IF s = <<>> THEN <<field>>
    ELSE IF Head(s) = sep THEN <<field>> \o SplitAcc(Tail(s), sep, <<>>)
    ELSE SplitAcc(Tail(s), sep, Append(field, Head(s)))
Split(s, sep) == SplitAcc(s, sep, <<>>)

\* s.split(): split on runs of whitespace, no empty field
RECURSIVE SplitWsAcc(_, _)
SplitWsAcc(s, field) ==
    IF s = <<>> THEN (IF field = <<>> THEN <<>> ELSE <<field>>)
    ELSE IF Head(s) = " "
         THEN (IF field = <<>> THEN <<>> ELSE <<field>>) \o SplitWsAcc(Tail(s), <<>>)
         ELSE SplitWsAcc(Tail(s), Append(field, Head(s)))
SplitWs(s) == SplitWsAcc(s, <<>>)

\* index of the last occurrence of c in s, 0 if there is none
LastIndex(s, c) ==
    IF \E i \in 1..Len(s) : s[i] = c
    THEN CHOOSE i \in 1..Len(s) : s[i] = c /\ \A j \in (i + 1)..Len(s) : s[j] # c
    ELSE 0

\* pathlib: PurePath.name of a relative path
BaseName(p) == SubSeq(p, LastIndex(p, "/") + 1, Len(p))

\* pathlib: PurePath.suffix, empty when the name starts or ends with its last dot
PathSuffix(p) ==
    LET n == BaseName(p)
        i == LastIndex(n, ".")
    IN  IF i > 1 /\ i < Len(n) THEN SubSeq(n, i, Len(n)) ELSE <<>>

\* pathlib: PurePath.stem
PathStem(p) ==
    LET n == BaseName(p)
        i == LastIndex(n, ".")
    IN  IF i > 1 /\ i < Len(n) THEN SubSeq(n, 1, i - 1) ELSE n

\* pathlib: product / href, relative to the product root ("." parts are dropped)
RECURSIVE PathJoin(_)
PathJoin(href) ==
    IF Len(href) >= 2 /\ href[1] = "." /\ href[2] = "/"
    THEN PathJoin(SubSeq(href, 3, Len(href)))
    ELSE href

\* int(s) for a string of decimal digits
RECURSIVE ParseInt(_)
ParseInt(s) ==
    IF s = <<>> THEN 0
    ELSE 10 * ParseInt(SubSeq(s, 1, Len(s) - 1)) + (Ord[s[Len(s)]] - Ord["0"])

\* format(n, '04X')
HexDigits == <<"0", "1", "2", "3", "4", "5", "6", "7", "8", "9",
               "A", "B", "C", "D", "E", "F">>
RECURSIVE ToHex(_)
ToHex(n) ==
    IF n < 16 THEN <<HexDigits[n + 1]>>
    ELSE Append(ToHex(n \div 16), HexDigits[(n % 16) + 1])
RECURSIVE ZeroPad(_, _)
ZeroPad(s, width) == IF Len(s) >= width THEN s ELSE ZeroPad(<<"0">> \o s, width)
Format04X(n) == ZeroPad(ToHex(n), 4)

(***************************************************************************)
(* What the runs are given: product names, manifest entries, files.        *)
(***************************************************************************)
NameS1 == <<"S", "1", "A", "_", "I", "W", "_", "G", "R", "D", "H", "_",
            "1", "S", "D", "V", "_", "T", "1", "_", "T", "2", "_", "O", "1",
            "_", "D", "1", "_", "1", "2", "3", "4", ".", "S", "A", "F", "E">>
NameS1Aux == <<"S", "1", "A", "_", "A", "U", "X", "_", "C", "A", "L", "_",
               "V", "1", "_", "G", "1", ".", "S", "A", "F", "E">>
NameAA == <<"A", "A", "_", "I", "W", "_", "G", "R", "D", "H", "_",
            "1", "S", "D", "V", "_", "T", "1", "_", "T", "2", "_", "O", "1",
            "_", "D", "1", "_", "1", "2", "3", "4", ".", "S", "A", "F", "E">>
NameS1Short == <<"S", "1", "A", "_", "I", "W", "_", "1", "2", "3", "4",
                 ".", "S", "A", "F", "E">>
ProductNames == {NameS1, NameS1Aux, NameAA, NameS1Short}

\* crc_hqx values of the manifest bytes: 0x1234 and 0x5678
ManifestCRCs == {4660, 22136}

ManifestSafe == <<"m", "a", "n", "i", "f", "e", "s", "t", ".", "s", "a", "f", "e">>
FileA == <<"a", ".", "d", "a", "t">>
FileB == <<"b", ".", "X", "M", "L">>
FileS == <<"s", ".", "x", "s", "d">>
DiskPaths == {FileA, FileB, FileS}

HrefA == <<".", "/", "a", ".", "d", "a", "t">>
HrefB == FileB
HrefS == FileS

RepA == <<"a", "S", "c", "h", "e", "m", "a">>
RepB == <<"b", "S", "c", "h", "e", "m", "a">>
RepAB == RepA \o <<" ">> \o RepB
RepBA == RepB \o <<" ">> \o RepA
MetaPlatform == <<"p", "l", "a", "t", "f", "o", "r", "m">>
RepIdLists == {RepA, RepB, RepAB, RepBA}
DataObjectIds == {"d1", "d2"}

\* <metadataObject ID=...><metadataReference href=.../>
MetadataObjects ==
    {[ID |-> RepA, href |-> HrefS], [ID |-> MetaPlatform, href |-> HrefA]}

\* <xfdu:contentUnit repID=...><dataObjectPointer dataObjectID=.../>
ContentUnits == [dataObjectID : DataObjectIds, repID : RepIdLists]

\* <dataObject ID=... repID=...><byteStream size=...><fileLocation href=.../>
\* <checksum>...</checksum>
DataObjects ==
    [ID : DataObjectIds, repID : RepIdLists, size : {<<"1", "0", "0">>},
     href : {HrefA, HrefB}, checksum : {"c1"}]

FileSizes == {90, 100}
Md5Sums == {"c1", "c2"}

\* The built-in schema resources xsd/<mission>_buildin_manifest.xsd of the
\* package, by the lower-case mission of their name.
SchemaResources == {<<"s", "1">>}

\* -s/--schema: absent, or the path of a schema (one that parses)
SchemaArgs == {None, "schema.xsd"}

(***************************************************************************)
(* Helpers of the code.                                                    *)
(***************************************************************************)
\* is_xml(filename)
is_xml(filename) ==
    /\ Lower(PathSuffix(filename)) = <<".", "x", "m", "l">>
    /\ BaseName(filename)[1] # "."

\* s1_check_product_crc reading the eighth field of the name, not the ninth
s1_check_product_crc_Field8(name, crc) ==
    LET expected_crc == Format04X(crc)
        parts == Split(PathStem(name), "_")
    IN  IF Len(parts) < 9 THEN "IndexError"
        ELSE IF expected_crc # parts[8] THEN "False"
        ELSE "True"

\* s1_check_product_crc(product, manifestfile): "True", "False", or the
\* exception of split('_')[8] on a name of fewer than nine parts
s1_check_product_crc(name, crc) ==
    LET expected_crc == Format04X(crc)
        parts == Split(PathStem(name), "_")
    IN  IF Len(parts) < 9 THEN "IndexError"
        ELSE IF expected_crc # parts[9] THEN "False"
        ELSE "True"

\* verify_safe_product: the condition under which the name CRC is checked
NeedsCrcCheck(m, name) ==
    m = <<"S", "1">> /\ Slice(name, 4, 7) # <<"A", "U", "X">>

\* get_default_manifest_schema(mission): whether the resource exists
DefaultSchemaExists(m) == Lower(m) \in SchemaResources

\* check_file_against_schema(xmlfile, schema): "True", "False", or the
\* exception etree.parse(xmlfile) raises, which "except DocumentInvalid"
\* does not catch
check_file_against_schema(schema_parses, xml_wf, xml_valid) ==
    IF ~schema_parses THEN "False"
    ELSE IF ~xml_wf THEN "XMLSyntaxError"
    ELSE IF ~xml_valid THEN "False"
    ELSE "True"

\* the last id of the list instead of the first
FirstRepId_Last(rep_id) == SplitWs(rep_id)[Len(SplitWs(rep_id))]

\* rep_id.split()[0]
FirstRepId(rep_id) == SplitWs(rep_id)[1]

\* main: the update of return_code by one result
Aggregate(rc, res) ==
    IF res # 0 /\ (res < rc \/ rc = 0) THEN res ELSE rc

\* a final return that lets a warning count as an error
FinalCode_WarningAsError(he, hw) == IF he \/ hw THEN 2 ELSE 0

\* verify_safe_product: the final return
FinalCode(he, hw) == IF he THEN 2 ELSE IF hw THEN 3 ELSE 0

\* logger.error(...) about a data object, logger.warning(...) about a file
Err(what, obj) == [level |-> "error", what |-> what, obj |-> obj, file |-> <<>>]
Warn(what, file) == [level |-> "warning", what |-> what, obj |-> "-", file |-> file]
Did(op, obj) == [op |-> op, obj |-> obj, file |-> <<>>]
\* a manifest entry has named the file at href
Named(href) == [op |-> "href", obj |-> "-", file |-> href]

\* return <code>
Return(code) == result' = code /\ pc' = "main_result" /\ UNCHANGED exc
\* an exception leaves verify_safe_product
Raise(e) == exc' = e /\ pc' = "main_raised" /\ UNCHANGED result
\* go on to the next step
Goto(p) == pc' = p /\ UNCHANGED <<result, exc>>

mainVars == <<nargs, schema_arg, return_code, results, exit_status>>
manifestVars == <<manifest_crc, manifest_wf>>
modelVars == <<reps, data_objects, cur>>
checkVars == <<keys, ki, fattr>>

(***************************************************************************)
(* State after construction: main() has parsed the command line.           *)
(***************************************************************************)
NoEntry == [none |-> TRUE]

Init ==
    /\ nargs \in 1..MaxProducts
    /\ schema_arg \in SchemaArgs
    /\ return_code = 0
    /\ results = <<>>
    /\ exit_status = None
    /\ pc = "main_loop"
    /\ product = <<>>
    /\ mission = <<>>
    /\ has_errors = FALSE
    /\ has_warnings = FALSE
    /\ manifest_crc = 0
    /\ manifest_wf = TRUE
    /\ disk = {}
    /\ fattr = <<>>
    /\ files = {}
    /\ reps = <<>>
    /\ data_objects = <<>>
    /\ cur = NoEntry
    /\ keys = <<>>
    /\ ki = 0
    /\ result = None
    /\ exc = None
    /\ logged = {}
    /\ done = {}

(***************************************************************************)
(* main()                                                                  *)
(***************************************************************************)
\* for arg in args.products: result = verify_safe_product(arg, args.schema)
MainCall ==
    /\ pc = "main_loop"
    /\ Len(results) < nargs
    /\ \E name \in ProductNames : product' = name
    /\ pc' = "v_begin"
    /\ UNCHANGED <<mainVars, mission, has_errors, has_warnings, manifestVars,
                   disk, files, modelVars, checkVars, result, exc, logged, done>>

\* the call has returned: update return_code, next product
MainResult ==
    /\ pc = "main_result"
    /\ return_code' = Aggregate(return_code, result)
    /\ results' = Append(results, result)
    /\ pc' = "main_loop"
    /\ product' = <<>> /\ mission' = <<>>
    /\ has_errors' = FALSE /\ has_warnings' = FALSE
    /\ manifest_crc' = 0 /\ manifest_wf' = TRUE
    /\ disk' = {} /\ fattr' = <<>> /\ files' = {}
    /\ reps' = <<>> /\ data_objects' = <<>> /\ cur' = NoEntry
    /\ keys' = <<>> /\ ki' = 0
    /\ result' = None
    /\ logged' = {} /\ done' = {}
    /\ UNCHANGED <<nargs, schema_arg, exit_status, exc>>

\* sys.exit(return_code) after the last product
MainExit ==
    /\ pc = "main_loop"
    /\ Len(results) = nargs
    /\ exit_status' = return_code
    /\ pc' = "exited"
    /\ UNCHANGED <<nargs, schema_arg, return_code, results, product, mission,
                   has_errors, has_warnings, manifestVars, disk, files,
                   modelVars, checkVars, result, exc, logged, done>>

\* An exception other than SystemExit and KeyboardInterrupt is not handled:
\* it leaves main() and the interpreter ends the process with status 1.
MainUncaught ==
    /\ pc = "main_raised"
    /\ exit_status' = 1
    /\ pc' = "exited"
    /\ UNCHANGED <<nargs, schema_arg, return_code, results, product, mission,
                   has_errors, has_warnings, manifestVars, disk, files,
                   modelVars, checkVars, result, exc, logged, done>>

(***************************************************************************)
(* verify_safe_product(product, manifest_schema)                           *)
(***************************************************************************)
\* has_errors = has_warnings = False; mission; "if not product.exists()"
VerifyBegin ==
    /\ pc = "v_begin"
    /\ has_errors' = FALSE
    /\ has_warnings' = FALSE
    /\ mission' = Slice(product, 0, 2)
    /\ \E exists \in BOOLEAN :
         IF ~exists
         THEN /\ logged' = {Err("could not find product", "-")}
              /\ Return(2)
         ELSE /\ logged' = {}
              /\ Goto("v_manifest")
    /\ UNCHANGED <<mainVars, product, manifestVars, disk, files, modelVars,
                   checkVars, done>>

\* VerifyManifestExists with the "return 2" of the missing manifest left out
VerifyManifestExists_NoReturn ==
    /\ pc = "v_manifest"
    /\ \/ /\ logged' = {Err("could not find manifest", "-")}
          /\ Goto("v_crc")
          /\ UNCHANGED manifestVars
       \/ /\ \E crc \in ManifestCRCs : manifest_crc' = crc
          /\ \E wf \in BOOLEAN : manifest_wf' = wf
          /\ logged' = {}
          /\ Goto("v_crc")
    /\ UNCHANGED <<mainVars, product, mission, has_errors, has_warnings, disk,
                   files, modelVars, checkVars, done>>

\* manifestfile = product / 'manifest.safe'; "if not manifestfile.exists()".
\* A manifest that exists has its bytes: their CRC, well-formed XML or not.
VerifyManifestExists ==
    /\ pc = "v_manifest"
    /\ \/ /\ logged' = {Err("could not find manifest", "-")}
          /\ Return(2)
          /\ UNCHANGED manifestVars
       \/ /\ \E crc \in ManifestCRCs : manifest_crc' = crc
          /\ \E wf \in BOOLEAN : manifest_wf' = wf
          /\ logged' = {}
          /\ Goto("v_crc")
    /\ UNCHANGED <<mainVars, product, mission, has_errors, has_warnings, disk,
                   files, modelVars, checkVars, done>>

\* if mission == "S1" and product.name[4:7] != "AUX": s1_check_product_crc
VerifyCrc ==
    /\ pc = "v_crc"
    /\ IF NeedsCrcCheck(mission, product)
       THEN LET ok == s1_check_product_crc(product, manifest_crc) IN
            /\ done' = done \cup {Did("crc", ok)}
            /\ IF ok = "IndexError"
               THEN /\ Raise("IndexError")
                    /\ logged' = {}
                    /\ UNCHANGED has_warnings
               ELSE /\ has_warnings' = (has_warnings \/ ok = "False")
                    /\ logged' = IF ok = "False"
                                 THEN {Warn("crc in product name", <<>>)}
                                 ELSE {}
                    /\ Goto("v_schema")
       ELSE /\ Goto("v_schema")
            /\ logged' = {}
            /\ UNCHANGED <<has_warnings, done>>
    /\ UNCHANGED <<mainVars, product, mission, has_errors, manifestVars, disk,
                   files, modelVars, checkVars>>

\* check_manifest_file(manifestfile, manifest_schema, mission=mission).
\* The CRC of the manifest bytes is not read again.
VerifyManifestSchema ==
    /\ pc = "v_schema"
    /\ IF schema_arg = None /\ ~DefaultSchemaExists(mission)
       THEN /\ Raise("FileNotFoundError")
            /\ logged' = {}
            /\ UNCHANGED <<has_errors, done>>
       ELSE \E valid \in BOOLEAN :
            LET ok == check_file_against_schema(TRUE, manifest_wf, valid) IN
            /\ done' = done \cup {Did("validate", "-")}
            /\ IF ok = "XMLSyntaxError"
               THEN /\ Raise("XMLSyntaxError")
                    /\ logged' = {}
                    /\ UNCHANGED has_errors
               ELSE /\ has_errors' = (has_errors \/ ok = "False")
                    /\ logged' = IF ok = "False"
                                 THEN {Err("manifest not valid", "-")}
                                 ELSE {}
                    /\ Goto("v_parse")
    /\ manifest_crc' = 0
    /\ UNCHANGED <<mainVars, product, mission, has_warnings, manifest_wf, disk,
                   files, modelVars, checkVars>>

\* manifest = etree.parse(...): it returns a document or raises, so that
\* "if manifest is None: return 2" is never taken
VerifyParse ==
    /\ pc = "v_parse"
    /\ done' = done \cup {Did("parse", "-")}
    /\ logged' = {}
    /\ IF ~manifest_wf THEN Raise("XMLSyntaxError") ELSE Goto("v_enumerate")
    /\ UNCHANGED <<mainVars, product, mission, has_errors, has_warnings,
                   manifestVars, disk, files, modelVars, checkVars>>

\* VerifyEnumerate without files.remove(manifestfile)
VerifyEnumerate_KeepManifest ==
    /\ pc = "v_enumerate"
    /\ \E d \in SUBSET DiskPaths :
         /\ disk' = d
         /\ files' = d \cup {ManifestSafe}
    /\ done' = done \cup {Did("enumerate", "-")}
    /\ logged' = {}
    /\ Goto("v_metadata")
    /\ UNCHANGED <<mainVars, product, mission, has_errors, has_warnings,
                   manifestVars, modelVars, checkVars>>

\* files = [item for item in product.rglob("*") if item.is_file()]
\* files.remove(manifestfile)
VerifyEnumerate ==
    /\ pc = "v_enumerate"
    /\ \E d \in SUBSET DiskPaths :
         /\ disk' = d
         /\ files' = (d \cup {ManifestSafe}) \ {ManifestSafe}
    /\ done' = done \cup {Did("enumerate", "-")}
    /\ logged' = {}
    /\ Goto("v_metadata")
    /\ UNCHANGED <<mainVars, product, mission, has_errors, has_warnings,
                   manifestVars, modelVars, checkVars>>

\* d[k] = v on a dict kept as a function
DictSet(d, k, v) == [x \in DOMAIN d \cup {k} |-> IF x = k THEN v ELSE d[x]]

\* for metadata_object in metadata_section.findall('metadataObject')
VerifyMetadataObject ==
    /\ pc = "v_metadata"
    /\ \E mo \in MetadataObjects :
         /\ cur' = mo
         /\ IF EndsWith(mo.ID, <<"S", "c", "h", "e", "m", "a">>)
            THEN /\ reps' = DictSet(reps, mo.ID, [ID |-> mo.ID, href |-> mo.href])
                 /\ files' = files \ {PathJoin(mo.href)}
            ELSE UNCHANGED <<reps, files>>
    /\ logged' = {}
    /\ Goto("v_metadata")
    /\ UNCHANGED <<mainVars, product, mission, has_errors, has_warnings,
                   manifestVars, disk, data_objects, checkVars, done>>

\* the metadata section is exhausted; "if mission == 'S1'"
VerifyMetadataEnd ==
    /\ pc = "v_metadata"
    /\ cur' = NoEntry
    /\ done' = done \cup {Did("metadata", "-")}
    /\ logged' = {}
    /\ Goto(IF mission = <<"S", "1">> THEN "v_ipm" ELSE "v_dos")
    /\ UNCHANGED <<mainVars, product, mission, has_errors, has_warnings,
                   manifestVars, disk, files, reps, data_objects, checkVars>>

\* position of key id in the dict, 0 if it is not a key
KeyIndex(dobjs, id) ==
    IF \E i \in 1..Len(dobjs) : dobjs[i].id = id
    THEN CHOOSE i \in 1..Len(dobjs) : dobjs[i].id = id
    ELSE 0

\* data_objects[data_object_id] = {'rep': reps[rep_id]}
Bind(dobjs, id, rep) ==
    LET fresh == [id |-> id, rep |-> rep, filled |-> FALSE, size |-> <<>>,
                  href |-> <<>>, checksum |-> ""]
        i == KeyIndex(dobjs, id)
    IN  IF i = 0 THEN Append(dobjs, fresh) ELSE [dobjs EXCEPT ![i] = fresh]

\* VerifyContentUnit recording the undefined representation as an error and
\* going on with the next content unit
VerifyContentUnit_GoOn ==
    /\ pc = "v_ipm"
    /\ \E content_unit \in ContentUnits :
         LET data_object_id == content_unit.dataObjectID
             rep_id == SplitWs(content_unit.repID)[1]
         IN  /\ cur' = content_unit
             /\ IF rep_id \notin DOMAIN reps
                THEN /\ logged' = {Err("repID not defined in metadataSection",
                                       data_object_id)}
                     /\ has_errors' = TRUE
                     /\ Goto("v_ipm")
                     /\ UNCHANGED <<data_objects, done>>
                ELSE /\ data_objects' = Bind(data_objects, data_object_id, reps[rep_id])
                     /\ done' = done \cup {Did("bind", data_object_id)}
                     /\ logged' = {}
                     /\ Goto("v_ipm")
                     /\ UNCHANGED has_errors
    /\ UNCHANGED <<mainVars, product, mission, has_warnings,
                   manifestVars, disk, files, reps, checkVars>>

\* for content_unit in information_package_map.findall(...)
VerifyContentUnit ==
    /\ pc = "v_ipm"
    /\ \E content_unit \in ContentUnits :
         LET data_object_id == content_unit.dataObjectID
             rep_id == FirstRepId(content_unit.repID)
         IN  /\ cur' = content_unit
             /\ IF rep_id \notin DOMAIN reps
                THEN /\ logged' = {Err("repID not defined in metadataSection",
                                       data_object_id)}
                     /\ Return(2)
                     /\ UNCHANGED <<data_objects, done>>
                ELSE /\ data_objects' = Bind(data_objects, data_object_id, reps[rep_id])
                     /\ done' = done \cup {Did("bind", data_object_id)}
                     /\ logged' = {}
                     /\ Goto("v_ipm")
    /\ UNCHANGED <<mainVars, product, mission, has_errors, has_warnings,
                   manifestVars, disk, files, reps, checkVars>>

\* the package map is exhausted
VerifyContentUnitsEnd ==
    /\ pc = "v_ipm"
    /\ cur' = NoEntry
    /\ logged' = {}
    /\ Goto("v_dos")
    /\ UNCHANGED <<mainVars, product, mission, has_errors, has_warnings,
                   manifestVars, disk, files, reps, data_objects, checkVars,
                   done>>

\* data_objects[data_object_id]['size'|'href'|'checksum'] = ...
Fill(dobjs, id, size, href, checksum) ==
    [dobjs EXCEPT ![KeyIndex(dobjs, id)] =
        [@ EXCEPT !.filled = TRUE, !.size = size, !.href = href,
                  !.checksum = checksum]]

\* for data_object in data_object_section.findall('dataObject')
VerifyDataObject ==
    /\ pc = "v_dos"
    /\ \E data_object \in DataObjects :
         LET data_object_id == data_object.ID
             rep_id == FirstRepId(data_object.repID)
             i == KeyIndex(data_objects, data_object_id)
         IN  /\ cur' = data_object
             /\ IF i = 0
                THEN /\ logged' = {Err("not defined in informationPackageMap",
                                       data_object_id)}
                     /\ Return(2)
                     /\ UNCHANGED <<has_errors, data_objects, files, done>>
                ELSE /\ IF data_objects[i].rep.ID # rep_id
                        THEN /\ logged' = {Err("repID differs between sections",
                                               data_object_id)}
                             /\ has_errors' = TRUE
                        ELSE /\ logged' = {}
                             /\ UNCHANGED has_errors
                     /\ data_objects' = Fill(data_objects, data_object_id,
                                             data_object.size, data_object.href,
                                             data_object.checksum)
                     /\ files' = files \ {PathJoin(data_object.href)}
                     /\ done' = done \cup {Did("dataObject", data_object_id),
                                           Named(data_object.href)}
                                     \cup {Did("rep differs", data_object_id) :
                                               x \in logged'}
                     /\ Goto("v_dos")
    /\ UNCHANGED <<mainVars, product, mission, has_warnings, manifestVars,
                   disk, reps, checkVars>>

\* the data object section is exhausted
VerifyDataObjectsEnd ==
    /\ pc = "v_dos"
    /\ cur' = NoEntry
    /\ logged' = {}
    /\ Goto("v_sort")
    /\ UNCHANGED <<mainVars, product, mission, has_errors, has_warnings,
                   manifestVars, disk, files, reps, data_objects, checkVars,
                   done>>

\* list.sort(key=...) is stable: k goes after the keys whose href is not greater
RECURSIVE InsertByHref(_, _, _)
InsertByHref(sorted, k, href) ==
    IF sorted = <<>> THEN <<k>>
    ELSE IF StrLess(href[k], href[Head(sorted)]) THEN <<k>> \o sorted
    ELSE <<Head(sorted)>> \o InsertByHref(Tail(sorted), k, href)

RECURSIVE SortByHref(_, _)
SortByHref(ks, href) ==
    IF ks = <<>> THEN <<>>
    ELSE InsertByHref(SortByHref(SubSeq(ks, 1, Len(ks) - 1), href), ks[Len(ks)], href)

\* keys = list(data_objects.keys()); keys.sort(key=lambda x: data_objects[x]['href'])
SortedKeys(dobjs) ==
    SortByHref([i \in 1..Len(dobjs) |-> dobjs[i].id],
               [id \in {dobjs[i].id : i \in 1..Len(dobjs)} |->
                    dobjs[KeyIndex(dobjs, id)].href])

\* the sort; a data object without 'href' makes the key function raise
VerifySort ==
    /\ pc = "v_sort"
    /\ done' = done \cup {Did("sort", "-")}
    /\ logged' = {}
    /\ IF \E i \in 1..Len(data_objects) : ~data_objects[i].filled
       THEN /\ Raise("KeyError")
            /\ UNCHANGED <<keys, ki>>
       ELSE /\ keys' = SortedKeys(data_objects)
            /\ ki' = 1
            /\ Goto("v_exists")
    /\ UNCHANGED <<mainVars, product, mission, has_errors, has_warnings,
                   manifestVars, disk, fattr, files, modelVars>>

\* the data object the loop "for key in keys" is at, and its file
CurObject == data_objects[KeyIndex(data_objects, keys[ki])]
CurPath == PathJoin(CurObject.href)

\* Reading attribute a of file p gives v, the same at every read.
Reads(f, p, a, v) == <<p, a>> \in DOMAIN f => f[<<p, a>>] = v

\* What was read of the files is kept while a data object still to be
\* checked (keys[from..]) names the file.
Remember(f, from) ==
    LET later == {PathJoin(data_objects[KeyIndex(data_objects, keys[j])].href) :
                    j \in from..Len(keys)}
        kept == {x \in DOMAIN f : x[1] \in later \/ (x[2] = "xsd" /\ later # {})}
    IN  [x \in kept |-> f[x]]

\* if not filepath.exists(): ... continue
VerifyObjectExists ==
    /\ pc = "v_exists"
    /\ ki <= Len(keys)
    /\ done' = done \cup {Did("exists", keys[ki])}
    /\ IF CurPath \notin disk
       THEN /\ logged' = {Err("reference does not exist", keys[ki])}
            /\ has_errors' = TRUE
            /\ ki' = ki + 1
            /\ Goto("v_exists")
       ELSE /\ logged' = {}
            /\ UNCHANGED <<has_errors, ki>>
            /\ Goto("v_size")
    /\ UNCHANGED <<mainVars, product, mission, has_warnings, manifestVars,
                   disk, fattr, files, modelVars, keys>>

\* filesize = filepath.stat().st_size; if filesize != int(data_object['size'])
VerifyObjectSize ==
    /\ pc = "v_size"
    /\ \E filesize \in FileSizes :
         /\ Reads(fattr, CurPath, "size", filesize)
         /\ fattr' = DictSet(fattr, <<CurPath, "size">>, filesize)
         /\ IF filesize # ParseInt(CurObject.size)
            THEN /\ logged' = {Err("file size does not match", keys[ki])}
                 /\ has_errors' = TRUE
            ELSE /\ logged' = {}
                 /\ UNCHANGED has_errors
    /\ done' = done \cup {Did("size", keys[ki])}
                  \cup {Did("size differs", keys[ki]) : x \in logged'}
    /\ Goto("v_md5")
    /\ UNCHANGED <<mainVars, product, mission, has_warnings, manifestVars,
                   disk, files, modelVars, keys, ki>>

\* checksum = md5sum(filepath); if checksum != data_object['checksum']
VerifyObjectChecksum ==
    /\ pc = "v_md5"
    /\ \E checksum \in Md5Sums :
         /\ Reads(fattr, CurPath, "md5", checksum)
         /\ fattr' = DictSet(fattr, <<CurPath, "md5">>, checksum)
         /\ IF checksum # CurObject.checksum
            THEN /\ logged' = {Err("checksum does not match", keys[ki])}
                 /\ has_errors' = TRUE
            ELSE /\ logged' = {}
                 /\ UNCHANGED has_errors
    /\ done' = done \cup {Did("md5", keys[ki])}
    /\ Goto("v_xml")
    /\ UNCHANGED <<mainVars, product, mission, has_warnings, manifestVars,
                   disk, files, modelVars, keys, ki>>

\* if is_xml(filepath) and data_object['rep']: ...; then the next key
VerifyObjectSchema ==
    /\ pc = "v_xml"
    /\ IF is_xml(CurPath) /\ DOMAIN CurObject.rep # {}
       THEN LET schema == PathJoin(CurObject.rep.href) IN
            /\ done' = done \cup {Did("schema", keys[ki])}
            /\ IF schema \notin disk
               THEN /\ logged' = {Err("schema file does not exist", keys[ki])}
                    /\ has_errors' = TRUE
                    /\ fattr' = Remember(fattr, ki + 1)
                    /\ ki' = ki + 1
                    /\ Goto("v_exists")
               ELSE \E xsd \in {"schema", "broken"}, xml \in {"malformed", "invalid", "valid"} :
                    LET ok == check_file_against_schema(xsd = "schema", xml # "malformed",
                                                        xml = "valid")
                        \* the file is parsed only once the schema has been
                        seen == IF xsd = "schema"
                                THEN DictSet(DictSet(fattr, <<schema, "xsd">>, xsd),
                                             <<CurPath, "xml">>, xml)
                                ELSE DictSet(fattr, <<schema, "xsd">>, xsd)
                    IN
                    /\ Reads(fattr, schema, "xsd", xsd)
                    /\ xsd = "schema" => Reads(fattr, CurPath, "xml", xml)
                    /\ xsd = "broken" => xml = "valid"
                    /\ IF ok = "XMLSyntaxError"
                       THEN /\ Raise("XMLSyntaxError")
                            /\ logged' = {}
                            /\ fattr' = seen
                            /\ UNCHANGED <<has_errors, ki>>
                       ELSE /\ logged' = IF ok = "False"
                                         THEN {Err("not valid against schema", keys[ki])}
                                         ELSE {}
                            /\ has_errors' = (has_errors \/ ok = "False")
                            /\ fattr' = Remember(seen, ki + 1)
                            /\ ki' = ki + 1
                            /\ Goto("v_exists")
       ELSE /\ ki' = ki + 1
            /\ fattr' = Remember(fattr, ki + 1)
            /\ logged' = {}
            /\ Goto("v_exists")
            /\ UNCHANGED <<has_errors, done>>
    /\ UNCHANGED <<mainVars, product, mission, has_warnings, manifestVars,
                   disk, files, modelVars, keys>>

\* "for key in keys" is exhausted
VerifyObjectsEnd ==
    /\ pc = "v_exists"
    /\ ki > Len(keys)
    /\ logged' = {}
    /\ Goto("v_report")
    /\ UNCHANGED <<mainVars, product, mission, has_errors, has_warnings,
                   manifestVars, disk, fattr, files, modelVars, keys, ki, done>>

\* for file in files: logging.warning(...); has_warnings = True
VerifyReport ==
    /\ pc = "v_report"
    /\ logged' = {Warn("not included in manifest.safe", f) : f \in files}
    /\ has_warnings' = (has_warnings \/ files # {})
    /\ done' = done \cup {Did("report", "-")}
    /\ Goto("v_return")
    /\ UNCHANGED <<mainVars, product, mission, has_errors, manifestVars, disk,
                   fattr, files, modelVars, keys, ki>>

\* if has_errors: return 2; if has_warnings: return 3; return 0
VerifyReturn ==
    /\ pc = "v_return"
    /\ Return(FinalCode(has_errors, has_warnings))
    /\ UNCHANGED <<mainVars, product, mission, has_errors, has_warnings,
                   manifestVars, disk, fattr, files, modelVars, keys, ki,
                   logged, done>>

Next ==
    \/ MainCall
    \/ MainResult
    \/ MainExit
    \/ MainUncaught
    \/ VerifyBegin
    \/ VerifyManifestExists
    \/ VerifyCrc
    \/ VerifyManifestSchema
    \/ VerifyParse
    \/ VerifyEnumerate
    \/ VerifyMetadataObject
    \/ VerifyMetadataEnd
    \/ VerifyContentUnit
    \/ VerifyContentUnitsEnd
    \/ VerifyDataObject
    \/ VerifyDataObjectsEnd
    \/ VerifySort
    \/ VerifyObjectExists
    \/ VerifyObjectSize
    \/ VerifyObjectChecksum
    \/ VerifyObjectSchema
    \/ VerifyObjectsEnd
    \/ VerifyReport
    \/ VerifyReturn

Spec == Init /\ [][Next]_vars

(***************************************************************************)
(* Properties.                                                             *)
(***************************************************************************)
\* the most severe of the returned values: 2, else 3, else 0
Severest(rs) ==
    IF \E i \in 1..Len(rs) : rs[i] = 2 THEN 2
    ELSE IF \E i \in 1..Len(rs) : rs[i] = 3 THEN 3
    ELSE 0

\* C1: when the process ends, its exit status is the most severe outcome of
\* the products: 2 if a product returned 2, else 3 if a product returned 3,
\* else 0, whatever the order of the products.
C1_ExitStatusIsMostSevere ==
    pc = "exited" => exit_status = Severest(results)

\* The aggregation itself: when every call returned, the exit status is the
\* most severe of the returned values.
ExitStatusWhenAllReturn ==
    (pc = "exited" /\ exc = None) => exit_status = Severest(results)

\* calls of verify_safe_product made so far
Invocations ==
    Len(results) + (IF pc \in {"main_loop", "exited"} /\ exc = None THEN 0 ELSE 1)

\* C2: every product of the command line is verified: when the process
\* ends, verify_safe_product has been called once for each of them, whatever
\* the earlier calls came to.
C2_EveryProductIsVerified ==
    pc = "exited" => Invocations = nargs

\* What the run has read of the product shows nothing amiss: the directory
\* and a manifest that validates, no error and no warning so far, and, for a
\* family without package map, a data object entry whose representation is
\* defined, whose file is on disk and is the only file not yet accounted for.
NothingAmiss ==
    /\ Did("enumerate", "-") \in done
    /\ ~has_errors
    /\ ~has_warnings
    /\ mission = <<"S", "1">> => logged = {}
    /\ cur \in DataObjects =>
         /\ FirstRepId(cur.repID) \in DOMAIN reps
         /\ PathJoin(cur.href) \in disk
         /\ files \subseteq {PathJoin(cur.href)}

\* C3: verify_safe_product returns 0 for a well-formed product with no file
\* beyond the manifest, the referenced schemas and the referenced data.
C3_WellFormedProductIsClean ==
    (pc = "main_result" /\ NothingAmiss) => result = 0

\* C4: when the product directory or manifest.safe is missing,
\* verify_safe_product returns 2 and no check has run: no name CRC check, no
\* validation or parsing of the manifest, no enumeration of files, no check
\* of a data object.
C4_MissingProductOrManifestIsFatal ==
    \A e \in logged :
        e.what \in {"could not find product", "could not find manifest"} =>
            /\ pc = "main_result"
            /\ result = 2
            /\ done = {}
            /\ logged = {e}

C4_Witness ==
    /\ pc = "main_result"
    /\ result = 2
    /\ logged = {Err("could not find manifest", "-")}

\* the run has ended by returning 2
ReturnsTwo == pc # "main_raised" /\ (pc = "main_result" => result = 2)

\* C5: a data object whose file exists with a size other than the declared
\* one gets an error, its checksum comparison and, for an XML file with a
\* representation, its schema check are still made, and the run returns 2.
C5_SizeMismatchIsRecordedAndChecksGoOn ==
    \A i \in 1..Len(data_objects) :
        LET o == data_objects[i] IN
        Did("size differs", o.id) \in done =>
            /\ has_errors
            /\ pc # "v_md5" => Did("md5", o.id) \in done
            /\ (pc \notin {"v_md5", "v_xml"} /\ is_xml(PathJoin(o.href))) =>
                   Did("schema", o.id) \in done
            /\ ReturnsTwo

\* What is left of C5 when the end of the run is set aside: the error is
\* recorded and the checksum and schema checks of the object are made.
SizeMismatchChecksGoOn ==
    \A i \in 1..Len(data_objects) :
        LET o == data_objects[i] IN
        Did("size differs", o.id) \in done =>
            /\ has_errors
            /\ pc # "v_md5" => Did("md5", o.id) \in done
            /\ (pc \notin {"v_md5", "v_xml"} /\ is_xml(PathJoin(o.href))) =>
                   Did("schema", o.id) \in done

\* the data objects whose existence check found no file
MissingChecked ==
    {i \in 1..Len(data_objects) :
        /\ Did("exists", data_objects[i].id) \in done
        /\ PathJoin(data_objects[i].href) \notin disk}

\* C6: a data object whose declared file does not exist gets exactly one
\* error, no size, checksum or schema check is made for it, the loop goes on
\* with the next data object, and the run returns 2.
C6_MissingFileShortCircuits ==
    \A i \in MissingChecked :
        LET k == data_objects[i].id IN
        /\ has_errors
        /\ \A e \in logged :
             (e.level = "error" /\ e.obj = k) =>
                 /\ e = Err("reference does not exist", k)
                 /\ pc = "v_exists" /\ ki > 1 /\ keys[ki - 1] = k
        /\ \A op \in {"size", "md5", "schema"} : Did(op, k) \notin done
        /\ ReturnsTwo

\* What is left of C6 when the end of the run is set aside.
MissingFileSkipsItsChecks ==
    \A i \in MissingChecked :
        LET k == data_objects[i].id IN
        /\ has_errors
        /\ \A op \in {"size", "md5", "schema"} : Did(op, k) \notin done

\* the files on disk that no representation and no data object names
Unreferenced ==
    disk \ ({PathJoin(reps[r].href) : r \in DOMAIN reps}
            \cup {PathJoin(d.file) : d \in {x \in done : x.op = "href"}})

\* C7: every file of the product that is not the manifest and that no
\* representation href and no data object href names gets a warning, never
\* an error; a run without error and without fatal condition goes through
\* to the end and, having such a file, returns 3.
C7_UnreferencedFileIsWarning ==
    /\ (pc = "main_result" /\ result # 2) => Did("report", "-") \in done
    /\ Did("report", "-") \in done =>
         /\ pc \in {"v_return", "main_result"}
         /\ logged = {Warn("not included in manifest.safe", f) : f \in Unreferenced}
         /\ Unreferenced # {} => has_warnings
         /\ (pc = "main_result" /\ ~has_errors /\ Unreferenced # {}) => result = 3

C7_Witness ==
    /\ pc = "main_result"
    /\ result = 3
    /\ Did("report", "-") \in done
    /\ Did("crc", "False") \notin done
    /\ data_objects # <<>>
    /\ Unreferenced = {FileA}

\* C8 as stated: the product AA_..._1234.SAFE whose manifest bytes have the
\* digest 5678 gets the name CRC warning.
C8_AnyFamilyNameCrcMismatchWarns ==
    (pc = "v_schema" /\ product = NameAA /\ Format04X(manifest_crc) = <<"5", "6", "7", "8">>)
        => Warn("crc in product name", <<>>) \in logged

\* C8, for the family whose names are checked: an S1 product other than AUX
\* named ..._1234.SAFE gets the name CRC warning when the digest of its
\* manifest is 5678 and none when it is 1234; products of another family and
\* AUX products get none. The warning does not set the error state, the run
\* goes on, and it returns 3 when it reaches its end without error.
C8_S1NameCrcMismatchWarns ==
    /\ pc = "v_schema" =>
         /\ ~has_errors
         /\ IF product = NameS1 /\ manifest_crc = 22136
            THEN logged = {Warn("crc in product name", <<>>)} /\ has_warnings
            ELSE logged = {} /\ ~has_warnings
    /\ Did("crc", "False") \in done =>
         /\ product = NameS1
         /\ has_warnings
         /\ pc = "main_result" => result \in {2, 3}
         /\ (pc = "main_result" /\ Did("report", "-") \in done /\ ~has_errors)
                => result = 3
         /\ (pc = "main_result" /\ result = 2) =>
                (has_errors \/ \E e \in logged : e.level = "error")

C8_Witness ==
    /\ pc = "main_result"
    /\ product = NameS1
    /\ Did("crc", "False") \in done
    /\ result = 3
    /\ data_objects # <<>>
    /\ Unreferenced = {}

\* the first id of a representation id list of the model's inputs
LeadingId(rep_ids) == IF rep_ids \in {RepA, RepAB} THEN RepA ELSE RepB

\* C9: of a repID attribute holding several ids only the first is looked up
\* in the package map pass and compared in the data object section pass:
\* what a step does is decided by the first id, whatever follows it.
C9_OnlyFirstRepIdCounts ==
    /\ (pc = "v_ipm" /\ cur \in ContentUnits) =>
         /\ LeadingId(cur.repID) \in DOMAIN reps
         /\ data_objects[KeyIndex(data_objects, cur.dataObjectID)].rep
                = reps[LeadingId(cur.repID)]
    /\ (pc = "main_result" /\ cur \in ContentUnits) =>
         /\ LeadingId(cur.repID) \notin DOMAIN reps
         /\ result = 2
    /\ (pc = "v_dos" /\ cur \in DataObjects) =>
         LET o == data_objects[KeyIndex(data_objects, cur.ID)] IN
         /\ o.rep.ID # LeadingId(cur.repID) =>
                logged = {Err("repID differs between sections", cur.ID)}
         /\ o.rep.ID = LeadingId(cur.repID) => logged = {}

C9_Witness ==
    /\ pc = "v_dos"
    /\ cur \in DataObjects
    /\ cur.repID = RepAB
    /\ RepB \notin DOMAIN reps
    /\ logged = {}
    /\ ~has_errors

\* C10: a content unit whose first representation id is not in the rep map
\* makes verify_safe_product return 2 at once: no further content unit is
\* bound, the data object section is not read, no data object is checked and
\* no file is reported as unreferenced.
C10_UndefinedRepIsFatal ==
    /\ (pc = "v_ipm" /\ cur \in ContentUnits) =>
         SplitWs(cur.repID)[1] \in DOMAIN reps
    /\ \A e \in logged :
         e.what = "repID not defined in metadataSection" =>
            /\ pc = "main_result"
            /\ result = 2
            /\ logged = {e}
            /\ e.obj = cur.dataObjectID
            /\ \A d \in done :
                 d.op \in {"crc", "validate", "parse", "enumerate", "metadata", "bind"}
            /\ Cardinality({d \in done : d.op = "bind"}) = Len(data_objects)
            /\ \A i \in 1..Len(data_objects) : ~data_objects[i].filled
            /\ keys = <<>>

C10_Witness ==
    /\ pc = "main_result"
    /\ logged = {Err("repID not defined in metadataSection", "d2")}
    /\ Len(data_objects) = 1
    /\ result = 2

\* the data object that a mismatch of representation was recorded for
RepMismatched ==
    {i \in 1..Len(data_objects) : Did("rep differs", data_objects[i].id) \in done}

\* C11: an entry of the data object section whose first representation id
\* is not the id bound by the package map gets an error and verification
\* goes on: its size, href and checksum are stored, the run goes through to
\* the integrity checks unless a later entry is fatal, and the run returns 2.
C11_RepMismatchIsRecordedAndRunGoesOn ==
    \A i \in RepMismatched :
        /\ has_errors
        /\ data_objects[i].filled
        /\ \/ pc \in {"v_dos", "v_sort"}
           \/ Did("sort", "-") \in done
           \/ /\ pc = "main_result"
              /\ \E e \in logged : e.what = "not defined in informationPackageMap"
        /\ ReturnsTwo

\* What is left of C11 when the end of the run is set aside: the error is
\* recorded and the entry is stored.
RepMismatchIsStored ==
    \A i \in RepMismatched : has_errors /\ data_objects[i].filled

\* the step has read a data object section entry whose id the package map
\* pass did not bind, and has ended the run for it
UnboundIsFatal ==
    /\ pc = "main_result"
    /\ \E e \in logged : e.what = "not defined in informationPackageMap"

\* C12: a data object section entry whose id the package map pass did not
\* bind is fatal (return 2) only for a family that has a package map; for a
\* family without, the entry is stored with no representation and the run
\* goes on towards the integrity checks.
C12_UnboundEntryFatalOnlyWithPackageMap ==
    /\ UnboundIsFatal => (mission = <<"S", "1">> /\ result = 2)
    /\ (mission # <<"S", "1">> /\ cur \in DataObjects) =>
         LET i == KeyIndex(data_objects, cur.ID) IN
         /\ pc = "v_dos"
         /\ i # 0
         /\ data_objects[i].filled
         /\ DOMAIN data_objects[i].rep = {}

\* What the code does: an unbound entry ends the run with 2 whatever the
\* family, and it is the only way a run ends while reading the section.
UnboundEntryIsAlwaysFatal ==
    /\ UnboundIsFatal => (result = 2 /\ KeyIndex(data_objects, cur.ID) = 0)
    /\ (pc = "v_dos" /\ cur \in DataObjects) => KeyIndex(data_objects, cur.ID) # 0
    /\ (mission # <<"S", "1">> /\ cur \in DataObjects) => UnboundIsFatal

\* the product in hand is of a family without built-in schema and no
\* explicit schema was given
NoSchemaToResolve == schema_arg = None /\ product = NameAA

\* C13: without explicit schema and without built-in schema resource for
\* the family, the resolution failure is fatal for that product only:
\* verify_safe_product ends with 2 for it, the manifest is not taken as
\* validated and nothing later runs; with an explicit schema the built-in
\* resource is not consulted.
C13_MissingSchemaResourceIsFatalForTheProduct ==
    /\ NoSchemaToResolve =>
         /\ pc \in {"v_begin", "v_manifest", "v_crc", "v_schema", "main_result"}
         /\ pc = "main_result" => result = 2
         /\ \A d \in done : d.op = "crc"
    /\ schema_arg # None => exc # "FileNotFoundError"

\* What is left of C13 when the way the run ends is set aside: no step
\* follows the failed resolution, and an explicit schema always wins.
MissingSchemaResourceStopsTheRun ==
    /\ NoSchemaToResolve =>
         /\ pc \in {"v_begin", "v_manifest", "v_crc", "v_schema", "main_result",
                    "main_raised", "exited"}
         /\ \A d \in done : d.op = "crc"
         /\ pc \in {"main_raised", "exited"} => exc = "FileNotFoundError"
    /\ schema_arg # None => exc # "FileNotFoundError"

\* the validation of a manifest that is not well-formed XML has been started
UnparsableManifestRead == ~manifest_wf /\ Did("validate", "-") \in done

\* C14: when manifest.safe exists and cannot be parsed as XML,
\* verify_safe_product ends by returning 2, and in no other way.
C14_UnparsableManifestReturnsTwo ==
    UnparsableManifestRead => (pc = "main_result" /\ result = 2)

\* What the code does with such a manifest: the parse error leaves
\* verify_safe_product as an exception.
UnparsableManifestRaises ==
    UnparsableManifestRead =>
        /\ pc \in {"main_raised", "exited"}
        /\ exc = "XMLSyntaxError"
        /\ result = None

\* C15: when the run comes to the warnings, the residual file list is the
\* regular files under the product root less the manifest, less the file at
\* the href of every representation, less the file at the href of every
\* data object entry: no referenced file is in it and no unreferenced file
\* is missing from it, also when two entries declare the same href or a
\* declared href is not on disk. The same holds of what has been read at
\* every earlier step.
C15_ResidualFilesAreTheUnreferenced ==
    Did("enumerate", "-") \in done =>
        /\ ManifestSafe \notin files
        /\ files \subseteq disk
        /\ \A f \in disk :
             f \in files <=>
                /\ \A r \in DOMAIN reps : PathJoin(reps[r].href) # f
                /\ \A d \in done : d.op = "href" => PathJoin(d.file) # f

C15_Witness ==
    /\ pc = "v_report"
    /\ Len(data_objects) = 2
    /\ data_objects[1].href = HrefB
    /\ data_objects[2].href = HrefB
    /\ FileB \notin disk
    /\ files = {FileA}

\* the declared href of the data object with id k
HrefOf(k) == data_objects[KeyIndex(data_objects, k)].href

\* an integrity check of the data object with id k has been made
Visited(k) == Did("exists", k) \in done

\* the integrity checks of the data object with id k are over
ChecksOver(k) ==
    /\ Visited(k)
    /\ PathJoin(HrefOf(k)) \in disk =>
         (Did("size", k) \in done /\ Did("md5", k) \in done)

\* The order of the visits: keys holds every data object id once, by
\* non-decreasing href; the objects before the current one have had all
\* their checks, those after it none.
VisitsAreInHrefOrder ==
    (Did("sort", "-") \in done /\ exc # "KeyError") =>
        /\ Len(keys) = Len(data_objects)
        /\ \A i \in 1..Len(data_objects) :
             Cardinality({j \in 1..Len(keys) : keys[j] = data_objects[i].id}) = 1
        /\ \A j \in 1..(Len(keys) - 1) :
             ~StrLess(HrefOf(keys[j + 1]), HrefOf(keys[j]))
        /\ \A j \in 1..Len(keys) :
             /\ j < ki => ChecksOver(keys[j])
             /\ j > ki => \A op \in {"exists", "size", "md5", "schema"} :
                              Did(op, keys[j]) \notin done
             /\ (j = ki /\ pc = "v_exists") => ~Visited(keys[j])

\* C16: the integrity checks visit every data object exactly once, by
\* non-decreasing declared href, whatever the order of the entries and the
\* ids; the checks of one object are over before those of the next begin.
C16_EveryObjectVisitedOnceInHrefOrder ==
    /\ VisitsAreInHrefOrder
    /\ (pc \in {"main_result", "main_raised"} /\ Did("sort", "-") \in done) =>
         \A i \in 1..Len(data_objects) : Visited(data_objects[i].id)

\* the name of the file ends in ".xml", whatever the case, and does not
\* begin with a dot
IsXmlName(path) ==
    /\ EndsWith(Lower(BaseName(path)), <<".", "x", "m", "l">>)
    /\ Head(BaseName(path)) # "."

\* the data object with id k is one the schema check applies to
SchemaCheckApplies(k) ==
    LET o == data_objects[KeyIndex(data_objects, k)] IN
    /\ PathJoin(o.href) \in disk
    /\ IsXmlName(PathJoin(o.href))
    /\ DOMAIN o.rep # {}

\* When the schema check is made and what it records, the validator having
\* returned: it is made for the XML files with a representation and for no
\* other object; a schema file that is missing is an error of its own; a
\* file seen invalid or a schema seen broken leaves the error state set.
SchemaCheckIsMadeWhenItApplies ==
    (Did("sort", "-") \in done /\ exc # "KeyError") =>
        /\ \A j \in 1..Len(keys) :
             j < ki => (Did("schema", keys[j]) \in done <=> SchemaCheckApplies(keys[j]))
        /\ \A e \in logged :
             e.what = "schema file does not exist" =>
                /\ SchemaCheckApplies(e.obj)
                /\ PathJoin(data_objects[KeyIndex(data_objects, e.obj)].rep.href)
                       \notin disk
                /\ logged = {e}
                /\ has_errors
        /\ \A e \in logged :
             e.what = "not valid against schema" =>
                /\ SchemaCheckApplies(e.obj)
                /\ PathJoin(data_objects[KeyIndex(data_objects, e.obj)].rep.href)
                       \in disk
                /\ has_errors
        /\ \A x \in DOMAIN fattr :
             (x[2] \in {"xsd", "xml"} /\ fattr[x] \in {"broken", "invalid"})
                 => has_errors

\* C17: for a data object whose file exists the schema check is made if and
\* only if the file name ends in ".xml" (any case), does not begin with a
\* dot and the object has a representation; a missing schema file is then an
\* error without validation, and otherwise the file is validated and a
\* failure of the validation is recorded as an error.
C17_SchemaCheckWhenXmlAndFailureIsError ==
    /\ SchemaCheckIsMadeWhenItApplies
    /\ \A x \in DOMAIN fattr :
         (x[2] = "xml" /\ fattr[x] = "malformed") =>
             (has_errors /\ pc # "main_raised" /\ exc = None)

\* C18: when the integrity checks start, every data object of the map has
\* its href, size and checksum: a data object that the package map bound
\* and the data object section does not declare never comes to the sort or
\* to the checks without them.
C18_ObjectsAreFilledWhenChecksStart ==
    Did("sort", "-") \in done =>
        /\ \A i \in 1..Len(data_objects) : data_objects[i].filled
        /\ exc # "KeyError"

\* What the code does: the sort is started with whatever the two passes
\* left, and a data object without href makes it raise; the checks that
\* follow a sort that returned see filled objects only.
UnfilledObjectBreaksTheSort ==
    Did("sort", "-") \in done =>
        IF \A i \in 1..Len(data_objects) : data_objects[i].filled
        THEN exc # "KeyError"
        ELSE pc \in {"main_raised", "exited"} /\ exc = "KeyError" /\ keys = <<>>

====
